---- MODULE Spec2Model ----
(***************************************************************************)
(* Model of src/app.py, the Streamlit dashboard "Malaysia Crop Production  *)
(* Analytics".  Streamlit re-executes the whole script, top to bottom, for *)
(* every user interaction of a browser session; the script's globals live  *)
(* for one run, the st.cache_data / st.cache_resource stores live for the  *)
(* process, and the widget values live for the session.                    *)
(*                                                                         *)
(* Numbers in log space and in production units are fixed-point: a real r  *)
(* is the integer r * Scale.  Data frames live in a heap of objects, so    *)
(* that a frame that is written to is told apart from the frame it was     *)
(* derived from.  The data files and the model artifact are assumed to     *)
(* exist and to be readable (pd.read_csv and joblib.load return).          *)
(***************************************************************************)
EXTENDS Integers, Sequences, FiniteSets, TLC

VARIABLES
    csv,             \* the contents of data/final_crop.csv and data/state_clusters.csv
    cache_data,      \* st.cache_data store: function name -> stored frame
    cache_resource,  \* st.cache_resource store: function name -> model handle
    loads,           \* number of times each loader's body has run in the process
    widgets,         \* session widget state: widget label -> value chosen by the user
    rendered,        \* labels of the widgets the current / last run has rendered
    trigger,         \* label of the widget whose change started the run ("" on connect)
    pc,              \* position of the script run ("idle" between runs)
    runs,            \* number of script runs started
    heap,            \* data frames of the current run: object id -> sequence of rows
    locals,          \* the script's global names bound so far in the current run
    exc,             \* exception that ended the run, "none" if none
    view,            \* the page branches the run has entered
    success,         \* st.success output of the run: <<>> or <<hundredths displayed>>
    presses,         \* number of presses of the Predict button
    predict_calls,   \* number of calls of model.predict in the process
    run_calls,       \* calls of model.predict in the current run: their arguments
    handles          \* the model handles predictions were made with

vars == <<csv, cache_data, cache_resource, loads, widgets, rendered, trigger, pc, runs,
          heap, locals, exc, view, success, presses, predict_calls, run_calls, handles>>

\* ------------------------------------------------------------------ bounds
MaxRuns == 5

\* ------------------------------------------------------------- constants
SliderDefault == 2023
YearsAhead == 3
Scale == 10 * 10 * 10

\* ------------------------------------------------------- generic helpers
Empty == [k \in {} |-> 0]

Bind(l, name, v) == [k \in DOMAIN l \cup {name} |-> IF k = name THEN v ELSE l[k]]

Restrict(f, S) == [k \in DOMAIN f \cap S |-> f[k]]

Get(w, label, default) == IF label \in DOMAIN w THEN w[label] ELSE default

Range(s) == {s[i] : i \in DOMAIN s}

RECURSIVE SelectSeq2(_, _)
SelectSeq2(s, keep) ==
    IF s = <<>> THEN <<>>
    ELSE IF keep[1] THEN <<Head(s)>> \o SelectSeq2(Tail(s), Tail(keep))
         ELSE SelectSeq2(Tail(s), Tail(keep))

RECURSIVE Sum(_)
Sum(s) == IF s = <<>> THEN 0 ELSE Head(s) + Sum(Tail(s))

Max(S) == CHOOSE m \in S : \A n \in S : n <= m
Min(S) == CHOOSE m \in S : \A n \in S : m <= n

\* ------------------------------------------------------------ the files
\* A missing cell of a text column is read by pandas as the float nan.
NaN == "nan"

Row(s, c, y, p) == [state |-> s, crop_type |-> c, year |-> y, production |-> p]

\* Possible contents of data/final_crop.csv.
CropTables == {
    << Row("Johor", "Rice", 2021, 9), Row("Selangor", "Flower", 2022, 99),
       Row("Johor", "Flower", 2022, 0) >>,
    << Row("Johor", "Rice", 2017, 9), Row("Selangor", "Rice", 2019, 99) >>,
    << Row("Selangor", "Flower", 2024, 9) >>,
    << Row(NaN, "Rice", 2022, 9), Row(NaN, "Flower", 2023, 0) >>,
    << Row("Johor", "Rice", 2022, 9), Row(NaN, "Rice", 2023, 99) >> }

\* Contents of data/state_clusters.csv.
ClusterTable ==
    << [state |-> "Johor", avg_production |-> 3, growth_rate |-> 1, variability |-> 2,
        cluster_label |-> "Mixed Crop"],
       [state |-> "Selangor", avg_production |-> 99, growth_rate |-> 0, variability |-> 1,
        cluster_label |-> "Flower Specialized"] >>

\* ------------------------------------------------------ Python / pandas
\* The order of str values under "<".
Alphabet == <<"Flower", "Johor", "Rice", "Selangor">>

\* df[col].unique(): the distinct values of a column.
unique(frame, col) == {frame[i][col] : i \in DOMAIN frame}

\* sorted(values): a list in ascending order; comparing a str with a float raises
\* TypeError, so a list that mixes nan with strings cannot be sorted.
sorted(S) ==
    IF NaN \in S
    THEN IF S = {NaN} THEN [ok |-> TRUE, list |-> <<NaN>>]
         ELSE [ok |-> FALSE, list |-> <<>>]
    ELSE [ok |-> TRUE, list |-> SelectSeq(Alphabet, LAMBDA a : a \in S)]

\* Variant: the selection is made in place and the frame itself is handed back.
getitem_inplace(h, ref, mask, new) ==
    [heap |-> [h EXCEPT ![ref] = SelectSeq2(@, mask)], ref |-> ref]

\* frame[mask]: boolean indexing allocates a new frame holding the selected rows.
getitem(h, ref, mask, new) ==
    [heap |-> Bind(h, new, SelectSeq2(h[ref], mask)), ref |-> new]

\* frame[col] = values: writes the column into the frame the reference names.
setitem(h, ref, col, values) ==
    [h EXCEPT ![ref] = [i \in DOMAIN @ |-> Bind(@[i], col, values[i])]]

\* np.log10 on the values the charts plot; the integer part of the logarithm.
RECURSIVE log10(_)
log10(x) == IF x < 10 THEN 0 ELSE 1 + log10(x \div 10)

\* df.groupby("state")["production"].sum().reset_index(): one row per state,
\* keys in ascending order, rows with a missing key dropped.
groupby_sum(frame) ==
    LET keys == SelectSeq(Alphabet, LAMBDA a : a \in unique(frame, "state"))
        total(k) == Sum([i \in DOMAIN frame |->
                            IF frame[i].state = k THEN frame[i].production ELSE 0])
    IN  [i \in DOMAIN keys |-> [state |-> keys[i], production |-> total(keys[i])]]

\* np.expm1 in fixed point: the series y + y^2/2! + y^3/3! + ... for y >= 0, and
\* exp(y) - 1 = 1 / exp(-y) - 1 for y < 0.
RECURSIVE series(_, _, _)
series(y, term, n) ==
    IF term = 0 THEN 0
    ELSE term + series(y, (term * y) \div ((n + 1) * Scale), n + 1)

\* Variant: exp(y), the subtraction of 1 left out.
expm1_plain_exp(y) ==
    IF y >= 0 THEN series(y, y, 1) + Scale
    ELSE (Scale * Scale) \div (Scale + series(-y, -y, 1))

\* Variant: the sign of the argument inverted, exp(-y) - 1.
expm1_negated(y) ==
    IF y <= 0 THEN series(-y, -y, 1)
    ELSE (Scale * Scale) \div (Scale + series(y, y, 1)) - Scale

expm1(y) ==
    IF y >= 0 THEN series(y, y, 1)
    ELSE (Scale * Scale) \div (Scale + series(-y, -y, 1)) - Scale

\* ------------------------------------------------------------ the model
\* Values a model's predict may hand back: float64 entries in log space, or objects.
Float(v) == [dtype |-> "float64", val |-> v]
Object == [dtype |-> "object", val |-> 0]

\* log1p of 0, 1 and 999, and of -1/2.
LogValues == {0 - 693, 0, 693, 6908}

\* What a call of the opaque model's predict can do: raise, or return a sequence.
PredictOutcomes ==
    {[raises |-> TRUE, value |-> <<>>], [raises |-> FALSE, value |-> <<>>],
     [raises |-> FALSE, value |-> <<Object>>],
     [raises |-> FALSE, value |-> <<Float(0), Float(6908)>>]}
    \cup {[raises |-> FALSE, value |-> <<Float(y)>>] : y \in LogValues}

\* log_prediction[0]: the first entry; IndexError when there is none.
index0(seq) ==
    IF seq = <<>> THEN [ok |-> FALSE, value |-> Object]
    ELSE [ok |-> TRUE, value |-> seq[1]]

\* Variant: a value that is not a number is read as 0 instead of raising.
np_expm1_lenient(x) ==
    IF x.dtype # "float64" THEN [ok |-> TRUE, value |-> 0]
    ELSE [ok |-> TRUE, value |-> expm1(x.val)]

\* np.expm1(x): TypeError when x is not a number.
np_expm1(x) ==
    IF x.dtype # "float64" THEN [ok |-> FALSE, value |-> 0]
    ELSE [ok |-> TRUE, value |-> expm1(x.val)]

\* f"{prediction:,.2f}": the value rounded to hundredths, ties to even; the result is
\* the number of hundredths shown.
format_2f(p) ==
    LET a == IF p >= 0 THEN p ELSE 0 - p
        unit == Scale \div 100
        q == a \div unit
        r == a % unit
        h == IF 2 * r > unit \/ (2 * r = unit /\ q % 2 = 1) THEN q + 1 ELSE q
    IN  IF p >= 0 THEN h ELSE 0 - h

\* -------------------------------------------------------------- loaders
\* load_data under @st.cache_data: the body runs on a miss and its result is stored
\* serialized; every call hands the caller a frame of its own.
load_data(h, cache, n, new) ==
    IF "load_data" \in DOMAIN cache
    THEN [heap |-> Bind(h, new, cache["load_data"]), cache |-> cache, loads |-> n, ref |-> new]
    ELSE [heap |-> Bind(h, new, csv.crop), cache |-> Bind(cache, "load_data", csv.crop),
          loads |-> n + 1, ref |-> new]

\* load_clusters under @st.cache_data.
load_clusters(h, cache, n, new) ==
    IF "load_clusters" \in DOMAIN cache
    THEN [heap |-> Bind(h, new, cache["load_clusters"]), cache |-> cache, loads |-> n,
          ref |-> new]
    ELSE [heap |-> Bind(h, new, csv.clusters),
          cache |-> Bind(cache, "load_clusters", csv.clusters), loads |-> n + 1, ref |-> new]

\* Variant: no cache, joblib.load on every call.
load_model_uncached(cache, n) ==
    [cache |-> cache, loads |-> n + 1, model |-> n + 1]

\* Variant: the call does not load; the artifact is left for a later first use.
load_model_deferred(cache, n) ==
    [cache |-> cache, loads |-> n, model |-> 0]

\* load_model under @st.cache_resource: the body (joblib.load) runs on a miss and the
\* object it returns is stored and shared; a handle is the number of the
\* deserialization that made the object.
load_model(cache, n) ==
    IF "load_model" \in DOMAIN cache
    THEN [cache |-> cache, loads |-> n, model |-> cache["load_model"]]
    ELSE [cache |-> Bind(cache, "load_model", n + 1), loads |-> n + 1, model |-> n + 1]

\* -------------------------------------------------------------- widgets
Pages == <<"Power BI Dashboard", "Exploratory Data Analysis", "Cluster Insights",
           "Production Prediction">>

\* st.selectbox / st.sidebar.radio: the option the user chose, the first one by default.
selectbox(label, options, w) ==
    IF options = <<>> THEN "None" ELSE options[Get(w, label, 1)]

year_min(frame) == Min(unique(frame, "year"))
year_max(frame) == Max(unique(frame, "year")) + YearsAhead

\* Variant: the default value is not checked against the range.
slider_unchecked(label, min_value, max_value, value, w) ==
    [ok |-> TRUE, value |-> Get(w, label, value)]

\* st.slider(label, min_value, max_value, value): raises StreamlitAPIException when
\* the default value lies outside [min_value, max_value].
slider(label, min_value, max_value, value, w) ==
    IF value < min_value \/ value > max_value
    THEN [ok |-> FALSE, value |-> value]
    ELSE [ok |-> TRUE, value |-> Get(w, label, value)]

\* Variant: the button reads TRUE in every run, like a switch left on.
st_button_sticky(label, trig) == label = label

\* st.button(label): TRUE only in the run that the click on the button started.
st_button(label, trig) == trig = label

\* Variant: the state and crop columns exchanged.
DataFrame_swapped(state, crop, year) ==
    << [state |-> crop, crop_type |-> state, year |-> year] >>

\* pd.DataFrame({"state": [state], "crop_type": [crop], "year": [year]})
DataFrame(state, crop, year) ==
    << [state |-> state, crop_type |-> crop, year |-> year] >>

\* Options of the selectboxes, as the run that rendered them computed them.
Options(label) ==
    sorted(unique(csv.crop, IF label = "State" THEN "state" ELSE "crop_type")).list

SelectLabels == {"Select Crop Type", "State", "Crop Type"}

\* ----------------------------------------------------------------- Init
Init ==
    /\ csv \in {[crop |-> t, clusters |-> ClusterTable] : t \in CropTables}
    /\ cache_data = Empty
    /\ cache_resource = Empty
    /\ loads = [load_data |-> 0, load_clusters |-> 0, load_model |-> 0]
    /\ widgets = Empty
    /\ rendered = {}
    /\ trigger = ""
    /\ pc = "idle"
    /\ runs = 0
    /\ heap = Empty
    /\ locals = Empty
    /\ exc = "none"
    /\ view = {}
    /\ success = <<>>
    /\ presses = 0
    /\ predict_calls = 0
    /\ run_calls = <<>>
    /\ handles = {}

\* ---------------------------------------------------------- user events
\* Every interaction makes Streamlit start a new run of the script.
Rerun ==
    /\ pc' = "run"
    /\ runs' = runs + 1
    /\ rendered' = {}
    /\ heap' = Empty
    /\ locals' = Empty
    /\ exc' = "none"
    /\ view' = {}
    /\ success' = <<>>
    /\ run_calls' = <<>>
    /\ UNCHANGED <<csv, cache_data, cache_resource, loads, predict_calls, handles>>

\* A browser opens (or reloads) the app: a fresh session, no widget state.
Connect ==
    /\ pc = "idle" /\ runs < MaxRuns
    /\ widgets' = Empty
    /\ trigger' = ""
    /\ presses' = presses
    /\ Rerun

\* The user picks a page in the sidebar radio.
Navigate(i) ==
    /\ pc = "idle" /\ runs < MaxRuns
    /\ "Navigate" \in rendered
    /\ widgets' = Bind(widgets, "Navigate", i)
    /\ trigger' = "Navigate"
    /\ presses' = presses
    /\ Rerun

\* The user picks an option of one of the selectboxes on the page.
Choose(label, i) ==
    /\ pc = "idle" /\ runs < MaxRuns
    /\ label \in rendered
    /\ i \in 1..Len(Options(label))
    /\ widgets' = Bind(widgets, label, i)
    /\ trigger' = label
    /\ presses' = presses
    /\ Rerun

\* The user moves the year slider.
MoveSlider(y) ==
    /\ pc = "idle" /\ runs < MaxRuns
    /\ "Year" \in rendered
    /\ y \in year_min(csv.crop)..year_max(csv.crop)
    /\ widgets' = Bind(widgets, "Year", y)
    /\ trigger' = "Year"
    /\ presses' = presses
    /\ Rerun

\* The user presses "Predict Production".
Press ==
    /\ pc = "idle" /\ runs < MaxRuns
    /\ "Predict Production" \in rendered
    /\ widgets' = widgets
    /\ trigger' = "Predict Production"
    /\ presses' = presses + 1
    /\ Rerun

\* ------------------------------------------------------- the script run
\* The run ends: with an uncaught exception Streamlit shows it and keeps the session's
\* widget state; a run that completes drops the state of the widgets it did not render.
Finish(ex, shown) ==
    /\ pc' = "idle"
    /\ exc' = ex
    /\ rendered' = shown
    /\ widgets' = IF ex = "none" THEN Restrict(widgets, shown) ELSE widgets

\* Lines 10-54: page config, the three loaders, the header and the sidebar radio.
Start ==
    /\ pc = "run"
    /\ LET d == load_data(heap, cache_data, loads.load_data, "df")
           c == load_clusters(d.heap, d.cache, loads.load_clusters, "cluster_df")
           m == load_model(cache_resource, loads.load_model)
       IN  /\ heap' = c.heap
           /\ cache_data' = c.cache
           /\ cache_resource' = m.cache
           /\ loads' = [load_data |-> d.loads, load_clusters |-> c.loads,
                        load_model |-> m.loads]
           /\ locals' = [df |-> d.ref, cluster_df |-> c.ref, model |-> m.model,
                         page |-> selectbox("Navigate", Pages, widgets)]
    /\ rendered' = {"Navigate"}
    /\ pc' = "dispatch"
    /\ UNCHANGED <<csv, widgets, trigger, runs, exc, view, success, presses,
                   predict_calls, run_calls, handles>>

\* Lines 59-69: the embedded Power BI dashboard.
PowerBI ==
    /\ pc = "dispatch" /\ locals.page = Pages[1]
    /\ view' = view \cup {Pages[1]}
    /\ Finish("none", rendered)
    /\ UNCHANGED <<csv, cache_data, cache_resource, loads, trigger, runs, heap, locals,
                   success, presses, predict_calls, run_calls, handles>>

\* Lines 74-113: the trend chart of one crop and the histogram of the state totals.
EDA ==
    /\ pc = "dispatch" /\ locals.page = Pages[2]
    /\ view' = view \cup {Pages[2]}
    /\ LET opts == sorted(unique(heap[locals.df], "crop_type"))
           shown == rendered \cup {"Select Crop Type"}
       IN  IF ~opts.ok
           THEN /\ Finish("TypeError", rendered)
                /\ UNCHANGED <<heap, locals>>
           ELSE LET crop_selection == selectbox("Select Crop Type", opts.list, widgets)
                    df == heap[locals.df]
                    f == getitem(heap, locals.df,
                                 [i \in DOMAIN df |-> df[i].crop_type = crop_selection],
                                 "filtered")
                    h1 == setitem(f.heap, f.ref, "log_production",
                                  [i \in DOMAIN f.heap[f.ref] |->
                                      log10(f.heap[f.ref][i].production + 1)])
                    h2 == Bind(h1, "state_total", groupby_sum(h1[locals.df]))
                    h3 == setitem(h2, "state_total", "log_total",
                                  [i \in DOMAIN h2["state_total"] |->
                                      log10(h2["state_total"][i].production + 1)])
                IN  /\ heap' = h3
                    /\ locals' = Bind(Bind(Bind(locals, "crop_selection", crop_selection),
                                           "filtered", f.ref), "state_total", "state_total")
                    /\ Finish("none", shown)
    /\ UNCHANGED <<csv, cache_data, cache_resource, loads, trigger, runs, success,
                   presses, predict_calls, run_calls, handles>>

\* Lines 118-139: the scatter plot of the precomputed clusters.
Cluster ==
    /\ pc = "dispatch" /\ locals.page = Pages[3]
    /\ view' = view \cup {Pages[3]}
    /\ Finish("none", rendered)
    /\ UNCHANGED <<csv, cache_data, cache_resource, loads, trigger, runs, heap, locals,
                   success, presses, predict_calls, run_calls, handles>>

\* Lines 144-162: the three input widgets of the prediction page.
Inputs ==
    /\ pc = "dispatch" /\ locals.page = Pages[4]
    /\ view' = view \cup {Pages[4]}
    /\ LET df == heap[locals.df]
           states == sorted(unique(df, "state"))
           crops == sorted(unique(df, "crop_type"))
           year == slider("Year", year_min(df), year_max(df), SliderDefault, widgets)
       IN  IF ~states.ok
           THEN /\ Finish("TypeError", rendered)
                /\ locals' = locals
           ELSE IF ~crops.ok
           THEN /\ Finish("TypeError", rendered \cup {"State"})
                /\ locals' = Bind(locals, "state", selectbox("State", states.list, widgets))
           ELSE IF ~year.ok
           THEN /\ Finish("StreamlitAPIException", rendered \cup {"State", "Crop Type"})
                /\ locals' = Bind(Bind(locals,
                                  "state", selectbox("State", states.list, widgets)),
                                  "crop", selectbox("Crop Type", crops.list, widgets))
           ELSE /\ pc' = "button"
                /\ rendered' = rendered \cup {"State", "Crop Type", "Year"}
                /\ locals' = Bind(Bind(Bind(locals,
                                  "state", selectbox("State", states.list, widgets)),
                                  "crop", selectbox("Crop Type", crops.list, widgets)),
                                  "year", year.value)
                /\ UNCHANGED <<exc, widgets>>
    /\ UNCHANGED <<csv, cache_data, cache_resource, loads, trigger, runs, heap, success,
                   presses, predict_calls, run_calls, handles>>

\* Lines 164-170: the button; when it was pressed, the one-row input frame.
Button ==
    /\ pc = "button"
    /\ IF st_button("Predict Production", trigger)
       THEN /\ locals' = Bind(locals, "input_df",
                              DataFrame(locals.state, locals.crop, locals.year))
            /\ pc' = "predict"
            /\ rendered' = rendered \cup {"Predict Production"}
            /\ UNCHANGED <<exc, widgets>>
       ELSE /\ locals' = locals
            /\ Finish("none", rendered \cup {"Predict Production"})
    /\ UNCHANGED <<csv, cache_data, cache_resource, loads, trigger, runs, heap, view,
                   success, presses, predict_calls, run_calls, handles>>

\* Line 173: model.predict(input_df); the model is opaque, so the call may raise or
\* return any of the outcomes.
Predict(o) ==
    /\ pc = "predict"
    /\ predict_calls' = predict_calls + 1
    /\ run_calls' = Append(run_calls, locals.input_df)
    /\ handles' = handles \cup {locals.model}
    /\ IF o.raises
       THEN /\ locals' = locals
            /\ Finish("ModelError", rendered)
       ELSE /\ locals' = Bind(locals, "log_prediction", o.value)
            /\ pc' = "transform"
            /\ UNCHANGED <<exc, rendered, widgets>>
    /\ UNCHANGED <<csv, cache_data, cache_resource, loads, trigger, runs, heap, view,
                   success, presses>>

\* Lines 176-180: the first entry is taken back from log scale and displayed.
Transform ==
    /\ pc = "transform"
    /\ LET first == index0(locals.log_prediction)
           prediction == np_expm1(first.value)
       IN  IF ~first.ok
           THEN /\ Finish("IndexError", rendered)
                /\ UNCHANGED <<locals, success>>
           ELSE IF ~prediction.ok
           THEN /\ Finish("TypeError", rendered)
                /\ UNCHANGED <<locals, success>>
           ELSE /\ locals' = Bind(locals, "prediction", prediction.value)
                /\ success' = <<format_2f(prediction.value)>>
                /\ Finish("none", rendered)
    /\ UNCHANGED <<csv, cache_data, cache_resource, loads, trigger, runs, heap, view,
                   presses, predict_calls, run_calls, handles>>

Next ==
    \/ Connect
    \/ \E i \in DOMAIN Pages : Navigate(i)
    \/ \E label \in SelectLabels, i \in 1..2 : Choose(label, i)
    \/ \E y \in 2017..2027 : MoveSlider(y)
    \/ Press
    \/ Start
    \/ PowerBI
    \/ EDA
    \/ Cluster
    \/ Inputs
    \/ Button
    \/ \E o \in PredictOutcomes : Predict(o)
    \/ Transform

Spec == Init /\ [][Next]_vars

\* --------------------------------------------------------------- claims
Tolerance == Scale \div 2

Abs(n) == IF n >= 0 THEN n ELSE 0 - n

PredictionPage == Pages[4]

CropYears == unique(csv.crop, "year")

\* A prediction has been computed and displayed by the current / last run.
Displayed == success # <<>>

\* The log-space value the displayed prediction was derived from.
YLog == locals.log_prediction[1].val

\* C1: the production value of a displayed prediction is expm1 of the first entry
\* predict returned, with nothing else applied before the display formatting: an
\* entry 0.0 gives exactly 0.0, log1p(1) gives 1 and log1p(999) gives 999 (within
\* the tolerance of the fixed-point grid), and the display shows that value in
\* hundredths.
C1_Expm1OfFirstEntry ==
    Displayed =>
        /\ locals.prediction = expm1(YLog)
        /\ YLog = 0 => locals.prediction = 0
        /\ YLog = 693 => Abs(locals.prediction - 1 * Scale) <= Tolerance
        /\ YLog = 6908 => Abs(locals.prediction - 999 * Scale) <= Tolerance
        /\ Abs(success[1] * (Scale \div 100) - locals.prediction) <= Scale \div 200

C1_Witness ==
    /\ Displayed /\ YLog = 6908 /\ Len(locals.log_prediction) = 1
    /\ locals.input_df[1].state = "Selangor" /\ locals.input_df[1].crop_type = "Rice"
    /\ locals.input_df[1].year = SliderDefault

\* How a run that called predict went wrong.
PredictRaised == run_calls # <<>> /\ pc = "idle" /\ "log_prediction" \notin DOMAIN locals
ReturnedEmpty == "log_prediction" \in DOMAIN locals /\ locals.log_prediction = <<>>
ReturnedNonNumeric ==
    /\ "log_prediction" \in DOMAIN locals /\ locals.log_prediction # <<>>
    /\ locals.log_prediction[1].dtype # "float64"
RunOver == pc = "idle" /\ run_calls # <<>>

WellFormed(r) ==
    /\ DOMAIN r = {"state", "crop_type", "year"}
    /\ r.state # NaN /\ r.crop_type # NaN /\ r.year \in Int

\* C3 as stated: a request with a missing or wrongly shaped field never reaches the
\* model; the run fails with MalformedInputError before predict is invoked.
C3_MalformedInputRejected ==
    /\ \A i \in DOMAIN run_calls : \A k \in DOMAIN run_calls[i] :
           WellFormed(run_calls[i][k])
    /\ (pc = "idle" /\ "input_df" \in DOMAIN locals /\ ~WellFormed(locals.input_df[1])) =>
           exc = "MalformedInputError" /\ run_calls = <<>>

\* C4: a displayed prediction derived from a log-space value y_log >= 0 is never
\* negative.
C4_NonNegative == (Displayed /\ YLog >= 0) => locals.prediction >= 0 /\ success[1] >= 0

C4_Witness == Displayed /\ YLog > 0 /\ locals.prediction > 0

\* The values the three input widgets currently hold.
Selected ==
    [state |-> Options("State")[Get(widgets, "State", 1)],
     crop_type |-> Options("Crop Type")[Get(widgets, "Crop Type", 1)],
     year |-> Get(widgets, "Year", SliderDefault)]

\* C5: every call of predict passes a frame of exactly one row whose fields are
\* exactly state, crop_type and year, holding the selected state, crop type and year.
C5_OneRowThreeFields ==
    \A i \in DOMAIN run_calls :
        /\ Len(run_calls[i]) = 1
        /\ DOMAIN run_calls[i][1] = {"state", "crop_type", "year"}
        /\ run_calls[i][1] = Selected

C5_Witness ==
    /\ run_calls # <<>>
    /\ "State" \in DOMAIN widgets /\ widgets["State"] = 2
    /\ run_calls[1][1].state = "Selangor"

C7_ModelLoadedOnce ==
    /\ loads.load_model <= 1
    /\ Cardinality(handles) <= 1
    /\ "load_model" \in DOMAIN cache_resource => handles \subseteq {cache_resource["load_model"]}
    /\ "model" \in DOMAIN locals =>
           /\ "load_model" \in DOMAIN cache_resource
           /\ locals.model = cache_resource["load_model"]

C7_Witness == predict_calls >= 2 /\ runs >= 4 /\ loads.load_model = 1

\* C8 as stated: the model is not loaded before the first prediction is requested.
C8_LazyUntilPrediction == loads.load_model > 0 => presses > 0

\* The first run of the process has passed its loader calls (lines 30-32).
LoadersPassed == runs > 1 \/ (runs = 1 /\ pc # "run")

\* C8 amended: the model is loaded by the first script run of the process, before
\* the page is dispatched, whichever view is selected and whether or not a
\* prediction is ever requested; nothing is loaded before that run.
C8_LoadedByFirstRun ==
    /\ LoadersPassed => loads.load_model = 1 /\ "load_model" \in DOMAIN cache_resource
    /\ ~LoadersPassed => loads.load_model = 0 /\ cache_resource = Empty

C8_Witness ==
    /\ pc = "idle" /\ runs = 1 /\ presses = 0 /\ view = {Pages[1]}
    /\ loads.load_model = 1

\* C9: the crop table and the cluster table are never mutated: the stored tables
\* and the frames the script works on equal the files' contents, also after the EDA
\* page has added its log columns to the frames it derived.
C9_TablesNeverMutated ==
    /\ \A f \in DOMAIN cache_data :
           cache_data[f] = IF f = "load_data" THEN csv.crop ELSE csv.clusters
    /\ "df" \in DOMAIN locals => heap[locals.df] = csv.crop
    /\ "cluster_df" \in DOMAIN locals => heap[locals.cluster_df] = csv.clusters

C9_Witness ==
    /\ pc = "idle" /\ view = {Pages[2]} /\ predict_calls >= 1
    /\ "filtered" \in DOMAIN heap /\ heap["filtered"] # <<>>
    /\ "log_production" \in DOMAIN heap["filtered"][1]
    /\ Len(heap["filtered"]) < Len(heap[locals.df])
    /\ heap["state_total"] # <<>> /\ "log_total" \in DOMAIN heap["state_total"][1]

\* C10: predict is invoked exactly once per press of the Predict button, with no
\* retry after a failure, and never in a run that no press started or that renders
\* another view; a run renders exactly one of the four views.
C10_OncePerPress ==
    /\ Len(run_calls) <= 1
    /\ run_calls # <<>> => trigger = "Predict Production" /\ view = {PredictionPage}
    /\ predict_calls <= presses /\ presses - predict_calls <= 1
    /\ pc = "idle" => predict_calls = presses
    /\ Cardinality(view) <= 1
    /\ (pc = "idle" /\ runs > 0) => Cardinality(view) = 1 /\ view \subseteq Range(Pages)

C10_Witness ==
    /\ pc = "idle" /\ presses = 2 /\ predict_calls = 2 /\ exc = "ModelError"

====
